---- MODULE Spec2Model ----
(***************************************************************************)
(* Model of the redditlang compiler driver (src/main.rs): the `Cook`       *)
(* (build) command of `main`, the helper functions get_project,            *)
(* build_libstd and parse_file, and the external processes the driver      *)
(* starts (two cargo runs and the system linker).                          *)
(*                                                                         *)
(* The modules errors, parser and llvm are not part of the sources at      *)
(* hand; their behaviour (the diagnostics reporter, the grammar and the    *)
(* AST lowering) is modelled from the written specification.               *)
(***************************************************************************)
EXTENDS Integers, Sequences, FiniteSets, TLC

\* Longest source program (in statements) the model enumerates.
MaxStmts == 2

VARIABLES
    cmd,          \* the subcommand given on the command line
    release,      \* the --release flag of Cook
    projectValid, \* Project::from_path(cwd) returns Some
    libA,         \* ~/.walter/stdlib/target/release/libstd.a exists
    source,       \* contents of src/main.rl, a sequence of statement tokens
    pc,           \* position of the main thread
    exitCode,     \* exit status of the compiler process, -1 while it runs
    log,          \* messages handed to the logger / diagnostics reporter
    trace,        \* the steps main has carried out, in order
    proc,         \* state of each external process
    tree,         \* the AST returned by parse_file
    functions,    \* functions declared on the LLVM module
    blocks,       \* basic blocks of the entry function `main`
    cursor,       \* block the builder is positioned at (0: nowhere)
    targetOpt,    \* optimisation level given to create_target_machine
    ccOpt,        \* opt_level given to cc::Build
    stdPath,      \* the archive path build_libstd returned ("none": not yet)
    objWritten,   \* this invocation wrote the object file
    exeWritten    \* the linker of this invocation wrote the executable

vars == <<cmd, release, projectValid, libA, source, pc, exitCode, log, trace,
          proc, tree, functions, blocks, cursor, targetOpt, ccOpt,
          stdPath, objWritten, exeWritten>>

fileVars == <<libA, objWritten, exeWritten>>
irVars == <<tree, functions, blocks, cursor, stdPath>>
optVars == <<targetOpt, ccOpt>>

----------------------------------------------------------------------------
(* Inputs *)

Commands == {"Cook", "New"}

Procs == {"cargo_build", "cargo_clean", "linker"}

\* Statement forms of a source program; "Garbage" is text no grammar rule
\* matches.
StmtTokens == {"Expr", "BadCall", "Return", "IfRetBoth", "IfRetThen", "While"}
Tokens == StmtTokens \cup {"Garbage"}

SeqsUpTo(S, n) == UNION {[1..k -> S] : k \in 0..n}

Sources == SeqsUpTo(Tokens, MaxStmts)

----------------------------------------------------------------------------
(* Termination paths *)

LogEntry(level, msg) == [level |-> level, msg |-> msg]

\* std::process::exit(code) after log::error!(msg)
ErrorExit(msg) ==
    /\ log' = Append(log, LogEntry("error", msg))
    /\ pc' = "exited"
    /\ exitCode' = 1

\* errors::error(x): the diagnostics reporter; renders the message and ends
\* the process with a non-zero status.
error(msg) ==
    /\ log' = Append(log, LogEntry("error", msg))
    /\ pc' = "exited"
    /\ exitCode' = 1

\* A panic (unwrap / expect / todo!): the runtime prints the panic message
\* on stderr and the process ends with status 101; neither the logger nor
\* the diagnostics reporter is used.
Panic ==
    /\ log' = Append(log, LogEntry("panic", "thread 'main' panicked"))
    /\ pc' = "exited"
    /\ exitCode' = 101

\* main's handling of Err from build_libstd
LibstdErr == ErrorExit("Error building libstd")

Step(name) == trace' = Append(trace, name)

----------------------------------------------------------------------------
Init ==
    /\ cmd \in Commands
    /\ release \in BOOLEAN
    /\ projectValid \in BOOLEAN
    /\ libA \in BOOLEAN
    /\ source \in Sources
    /\ pc = "main"
    /\ exitCode = -1
    /\ log = <<>>
    /\ trace = <<>>
    /\ proc = [p \in Procs |-> "none"]
    /\ tree = <<>>
    /\ functions = <<>>
    /\ blocks = <<>>
    /\ cursor = 0
    /\ targetOpt = "unset"
    /\ ccOpt = -1
    /\ stdPath = "none"
    /\ objWritten = FALSE
    /\ exeWritten = FALSE

----------------------------------------------------------------------------
(* main: command dispatch and project lookup *)

CommandNew ==
    /\ pc = "main"
    /\ cmd = "New"
    /\ Panic
    /\ UNCHANGED <<cmd, release, projectValid, source, trace, proc>>
    /\ UNCHANGED <<fileVars, irVars, optVars>>

get_project_skip ==
    /\ pc = "main"
    /\ cmd = "Cook"
    /\ IF projectValid
       THEN /\ pc' = "libstd_mkdir"
            /\ UNCHANGED <<exitCode, log>>
       ELSE /\ log' = Append(log, LogEntry("error", "No valid walter.yml found."))
            /\ pc' = "libstd_mkdir"
            /\ UNCHANGED exitCode
    /\ UNCHANGED <<cmd, release, projectValid, source, trace, proc>>
    /\ UNCHANGED <<fileVars, irVars, optVars>>

get_project ==
    /\ pc = "main"
    /\ cmd = "Cook"
    /\ IF projectValid
       THEN /\ pc' = "libstd_mkdir"
            /\ UNCHANGED <<exitCode, log>>
       ELSE ErrorExit("No valid walter.yml found.")
    /\ UNCHANGED <<cmd, release, projectValid, source, trace, proc>>
    /\ UNCHANGED <<fileVars, irVars, optVars>>

----------------------------------------------------------------------------
(* build_libstd *)

LibstdCreateDir ==
    /\ pc = "libstd_mkdir"
    /\ Step("mkdir_walter")
    /\ \E ok \in BOOLEAN :
         IF ok THEN /\ pc' = "libstd_clone"
                    /\ UNCHANGED <<exitCode, log>>
               ELSE LibstdErr
    /\ UNCHANGED <<cmd, release, projectValid, source, proc>>
    /\ UNCHANGED <<fileVars, irVars, optVars>>

LibstdClone ==
    /\ pc = "libstd_clone"
    /\ Step("clone_else_pull")
    /\ \E ok \in BOOLEAN :
         IF ok THEN /\ pc' = "cargo_build"
                    /\ UNCHANGED <<exitCode, log>>
               ELSE Panic
    /\ UNCHANGED <<cmd, release, projectValid, source, proc>>
    /\ UNCHANGED <<fileVars, irVars, optVars>>

\* Command::new("cargo").arg("build")...output(): start of the child
CargoBuildSpawn ==
    /\ pc = "cargo_build"
    /\ Step("cargo_build")
    /\ \E started \in BOOLEAN :
         IF started
         THEN /\ proc' = [proc EXCEPT !["cargo_build"] = "running"]
              /\ pc' = "cargo_build_wait"
              /\ UNCHANGED <<exitCode, log>>
         ELSE /\ LibstdErr
              /\ UNCHANGED proc
    /\ UNCHANGED <<cmd, release, projectValid, source>>
    /\ UNCHANGED <<fileVars, irVars, optVars>>

\* the cargo build child ends; status 0 leaves target/release/libstd.a
CargoBuildExit ==
    /\ proc["cargo_build"] = "running"
    /\ \E ok \in BOOLEAN :
         /\ proc' = [proc EXCEPT !["cargo_build"] = IF ok THEN "exit0" ELSE "exit1"]
         /\ libA' = IF ok THEN TRUE ELSE libA
    /\ UNCHANGED <<cmd, release, projectValid, source, pc, exitCode, log, trace>>
    /\ UNCHANGED <<objWritten, exeWritten, irVars, optVars>>

\* output() returns once the child has ended; `?` looks only at the
\* io::Result, the ExitStatus inside Output is never read.
CargoBuildWait ==
    /\ pc = "cargo_build_wait"
    /\ proc["cargo_build"] \in {"exit0", "exit1"}
    /\ pc' = "libstd_rename"
    /\ UNCHANGED <<cmd, release, projectValid, source, exitCode, log, trace, proc>>
    /\ UNCHANGED <<fileVars, irVars, optVars>>

\* fs::rename(target/release/libstd.a, libstd.a)?
LibstdRename ==
    /\ pc = "libstd_rename"
    /\ Step("rename_libstd")
    /\ IF libA
       THEN /\ pc' = "cargo_clean"
            /\ libA' = FALSE
            /\ UNCHANGED <<exitCode, log>>
       ELSE /\ LibstdErr
            /\ UNCHANGED libA
    /\ UNCHANGED <<cmd, release, projectValid, source, proc>>
    /\ UNCHANGED <<objWritten, exeWritten, irVars, optVars>>

CargoCleanSpawn ==
    /\ pc = "cargo_clean"
    /\ Step("cargo_clean")
    /\ \E started \in BOOLEAN :
         IF started
         THEN /\ proc' = [proc EXCEPT !["cargo_clean"] = "running"]
              /\ pc' = "cargo_clean_wait"
              /\ UNCHANGED <<exitCode, log>>
         ELSE /\ LibstdErr
              /\ UNCHANGED proc
    /\ UNCHANGED <<cmd, release, projectValid, source>>
    /\ UNCHANGED <<fileVars, irVars, optVars>>

CargoCleanExit ==
    /\ proc["cargo_clean"] = "running"
    /\ \E ok \in BOOLEAN :
         proc' = [proc EXCEPT !["cargo_clean"] = IF ok THEN "exit0" ELSE "exit1"]
    /\ UNCHANGED <<cmd, release, projectValid, source, pc, exitCode, log, trace>>
    /\ UNCHANGED <<fileVars, irVars, optVars>>

\* output()? of cargo clean, then Ok(std_dir.join("libstd.a"))
CargoCleanWait ==
    /\ pc = "cargo_clean_wait"
    /\ proc["cargo_clean"] \in {"exit0", "exit1"}
    /\ pc' = "read_source"
    /\ stdPath' = "libstd.a"
    /\ UNCHANGED <<cmd, release, projectValid, source, exitCode, log, trace, proc>>
    /\ UNCHANGED <<fileVars, tree, functions, blocks, cursor, optVars>>

----------------------------------------------------------------------------
(* main: reading the source, parsing *)

ReadSource ==
    /\ pc = "read_source"
    /\ Step("read_source")
    /\ \E ok \in BOOLEAN :
         IF ok THEN /\ pc' = "create_build_dir"
                    /\ UNCHANGED <<exitCode, log>>
               ELSE Panic
    /\ UNCHANGED <<cmd, release, projectValid, source, proc>>
    /\ UNCHANGED <<fileVars, irVars, optVars>>

CreateBuildDir ==
    /\ pc = "create_build_dir"
    /\ Step("create_build_dir")
    /\ \E ok \in BOOLEAN :
         IF ok THEN /\ pc' = "parse"
                    /\ log' = Append(log, LogEntry("info", "Lexing/Parsing"))
                    /\ UNCHANGED exitCode
               ELSE Panic
    /\ UNCHANGED <<cmd, release, projectValid, source, proc>>
    /\ UNCHANGED <<fileVars, irVars, optVars>>

\* RLParser::parse(Rule::Program, file): fails when some part of the text
\* matches no statement rule.
SyntaxOk(file) == \A i \in 1..Len(file) : file[i] \in StmtTokens

\* parser::parse: one AST statement per matched statement, in source order.
parse(file) == [i \in 1..Len(file) |-> [kind |-> file[i], span |-> i]]

parse_file_recover ==
    /\ pc = "parse"
    /\ Step("parse")
    /\ IF SyntaxOk(source)
       THEN /\ tree' = parse(source)
            /\ log' = log
       ELSE /\ tree' = <<>>
            /\ log' = Append(log, LogEntry("error", "syntax error"))
    /\ pc' = "create_module"
    /\ UNCHANGED exitCode
    /\ UNCHANGED <<cmd, release, projectValid, source, proc>>
    /\ UNCHANGED <<fileVars, functions, blocks, cursor, stdPath, optVars>>

\* parse_file(&main_file)
parse_file ==
    /\ pc = "parse"
    /\ Step("parse")
    /\ IF SyntaxOk(source)
       THEN /\ tree' = parse(source)
            /\ pc' = "create_module"
            /\ UNCHANGED <<exitCode, log>>
       ELSE /\ error("syntax error")
            /\ UNCHANGED tree
    /\ UNCHANGED <<cmd, release, projectValid, source, proc>>
    /\ UNCHANGED <<fileVars, functions, blocks, cursor, stdPath, optVars>>

----------------------------------------------------------------------------
(* main: module set-up and lowering *)

PrintlnDecl == [name |-> "coitusinterruptus", ret |-> "void",
                params |-> <<"i8*">>, by |-> "driver"]

MainDecl == [name |-> "main", ret |-> "i32", params |-> <<>>, by |-> "driver"]

Block(name, instrs) == [name |-> name, instrs |-> instrs]

CreateModuleNoStd ==
    /\ pc = "create_module"
    /\ functions' = <<MainDecl>>
    /\ blocks' = <<Block("entry", <<>>)>>
    /\ cursor' = 1
    /\ log' = Append(log, LogEntry("info", "Converting AST to LLVM"))
    /\ pc' = "llvm"
    /\ Step("create_module")
    /\ UNCHANGED <<cmd, release, projectValid, source, exitCode, proc, tree>>
    /\ UNCHANGED <<fileVars, stdPath, optVars>>

\* Context/module/builder/pass manager creation, the declarations of the
\* standard-library print routine and of `main`, and the entry block.
CreateModule ==
    /\ pc = "create_module"
    /\ functions' = <<PrintlnDecl, MainDecl>>
    /\ blocks' = <<Block("entry", <<>>)>>
    /\ cursor' = 1
    /\ log' = Append(log, LogEntry("info", "Converting AST to LLVM"))
    /\ pc' = "llvm"
    /\ Step("create_module")
    /\ UNCHANGED <<cmd, release, projectValid, source, exitCode, proc, tree>>
    /\ UNCHANGED <<fileVars, stdPath, optVars>>

Terminators == {"ret", "br", "condbr"}

Emit(bs, c, ins) == [bs EXCEPT ![c] = Block(@.name, Append(@.instrs, ins))]

Declared(fns, name) == \E i \in 1..Len(fns) : fns[i].name = name

\* Lowering of one statement at the cursor. st = [blocks, cursor, err].
LowerStmt(st, s, fns) ==
    LET bs == st.blocks
        c == st.cursor
        n == Len(bs)
    IN  CASE s.kind = "Expr" ->
               IF Declared(fns, "coitusinterruptus")
               THEN [st EXCEPT !.blocks = Emit(bs, c, "call")]
               ELSE [st EXCEPT !.err = TRUE]
          [] s.kind = "BadCall" -> [st EXCEPT !.err = TRUE]
          [] s.kind = "Return" -> [st EXCEPT !.blocks = Emit(bs, c, "ret")]
          [] s.kind = "IfRetBoth" ->
               [st EXCEPT !.blocks = Emit(bs, c, "condbr")
                                       \o <<Block("then", <<"ret">>),
                                            Block("else", <<"ret">>),
                                            Block("merge", <<>>)>>,
                          !.cursor = n + 3]
          [] s.kind = "IfRetThen" ->
               [st EXCEPT !.blocks = Emit(bs, c, "condbr")
                                       \o <<Block("then", <<"ret">>),
                                            Block("else", <<"br">>),
                                            Block("merge", <<>>)>>,
                          !.cursor = n + 3]
          [] s.kind = "While" ->
               [st EXCEPT !.blocks = Emit(bs, c, "br")
                                       \o <<Block("header", <<"condbr">>),
                                            Block("body", <<"br">>),
                                            Block("exit", <<>>)>>,
                          !.cursor = n + 3]

RECURSIVE LowerFrom(_, _, _, _)
\* depth-first pass over the top-level statements; stops at the first error
LowerFrom(st, t, i, fns) ==
    IF i > Len(t) \/ st.err
    THEN st
    ELSE LowerFrom(LowerStmt(st, t[i], fns), t, i + 1, fns)

\* llvm(&compiler, &tree)
llvm ==
    /\ pc = "llvm"
    /\ Step("llvm")
    /\ LET r == LowerFrom([blocks |-> blocks, cursor |-> cursor, err |-> FALSE],
                          tree, 1, functions)
       IN  IF r.err
           THEN /\ error("semantic error")
                /\ UNCHANGED <<blocks, cursor>>
           ELSE /\ blocks' = r.blocks
                /\ cursor' = r.cursor
                /\ pc' = "build_return"
                /\ UNCHANGED <<exitCode, log>>
    /\ UNCHANGED <<cmd, release, projectValid, source, proc, tree, functions>>
    /\ UNCHANGED <<fileVars, stdPath, optVars>>

\* compiler.builder.build_return(Some(&i32 0)), at the builder's position
build_return ==
    /\ pc = "build_return"
    /\ blocks' = Emit(blocks, cursor, "ret")
    /\ pc' = "verify"
    /\ Step("build_return")
    /\ UNCHANGED <<cmd, release, projectValid, source, exitCode, log, proc>>
    /\ UNCHANGED <<tree, functions, cursor, stdPath, fileVars, optVars>>

NumTerminators(b) == Cardinality({i \in 1..Len(b.instrs) : b.instrs[i] \in Terminators})

\* LLVM's verifier on a block: it ends in a terminator and has no other
WellFormedBlock(b) ==
    /\ Len(b.instrs) >= 1
    /\ b.instrs[Len(b.instrs)] \in Terminators
    /\ NumTerminators(b) = 1

ModuleOk == \A i \in 1..Len(blocks) : WellFormedBlock(blocks[i])

verify_continue ==
    /\ pc = "verify"
    /\ Step("verify")
    /\ pc' = "emit"
    /\ log' = Append(log, LogEntry("info", "Compiling"))
    /\ UNCHANGED exitCode
    /\ UNCHANGED <<cmd, release, projectValid, source, proc>>
    /\ UNCHANGED <<fileVars, irVars, optVars>>

\* match compiler.module.verify()
verify ==
    /\ pc = "verify"
    /\ Step("verify")
    /\ IF ModuleOk
       THEN /\ pc' = "emit"
            /\ log' = Append(log, LogEntry("info", "Compiling"))
            /\ UNCHANGED exitCode
       ELSE ErrorExit("Module verification failed")
    /\ UNCHANGED <<cmd, release, projectValid, source, proc>>
    /\ UNCHANGED <<fileVars, irVars, optVars>>

----------------------------------------------------------------------------
(* main: object emission and linking *)

\* Target initialisation, create_target_machine and write_to_file
EmitObject ==
    /\ pc = "emit"
    /\ Step("emit")
    /\ targetOpt' = "Aggressive"
    /\ \E ok \in BOOLEAN :
         IF ok THEN /\ objWritten' = TRUE
                    /\ pc' = "link"
                    /\ log' = Append(log, LogEntry("info", "Linking"))
                    /\ UNCHANGED exitCode
               ELSE /\ Panic
                    /\ UNCHANGED objWritten
    /\ UNCHANGED <<cmd, release, projectValid, source, proc>>
    /\ UNCHANGED <<libA, exeWritten, irVars, ccOpt>>

\* cc::Build ... get_compiler().to_command()...spawn().unwrap(): the Child
\* is dropped without wait()
SpawnLinker ==
    /\ pc = "link"
    /\ Step("link")
    /\ ccOpt' = IF release THEN 3 ELSE 0
    /\ \E started \in BOOLEAN :
         IF started
         THEN /\ proc' = [proc EXCEPT !["linker"] = "running"]
              /\ pc' = "done"
              /\ UNCHANGED <<exitCode, log>>
         ELSE /\ Panic
              /\ UNCHANGED proc
    /\ UNCHANGED <<cmd, release, projectValid, source>>
    /\ UNCHANGED <<fileVars, irVars, targetOpt>>

\* the linker child ends; status 0 leaves the executable. It may end after
\* the compiler process has.
LinkerExit ==
    /\ proc["linker"] = "running"
    /\ \E ok \in BOOLEAN :
         /\ proc' = [proc EXCEPT !["linker"] = IF ok THEN "exit0" ELSE "exit1"]
         /\ exeWritten' = ok
    /\ UNCHANGED <<cmd, release, projectValid, source, pc, exitCode, log, trace>>
    /\ UNCHANGED <<libA, objWritten, irVars, optVars>>

\* log::info!("Done! ..."), end of main
Done ==
    /\ pc = "done"
    /\ log' = Append(log, LogEntry("info", "Done!"))
    /\ pc' = "exited"
    /\ exitCode' = 0
    /\ UNCHANGED <<cmd, release, projectValid, source, trace, proc>>
    /\ UNCHANGED <<fileVars, irVars, optVars>>

----------------------------------------------------------------------------
Next ==
    \/ CommandNew
    \/ get_project
    \/ LibstdCreateDir
    \/ LibstdClone
    \/ CargoBuildSpawn
    \/ CargoBuildExit
    \/ CargoBuildWait
    \/ LibstdRename
    \/ CargoCleanSpawn
    \/ CargoCleanExit
    \/ CargoCleanWait
    \/ ReadSource
    \/ CreateBuildDir
    \/ parse_file
    \/ CreateModule
    \/ llvm
    \/ build_return
    \/ verify
    \/ EmitObject
    \/ SpawnLinker
    \/ LinkerExit
    \/ Done

Spec == Init /\ [][Next]_vars

----------------------------------------------------------------------------
(* Properties *)

InTrace(name) == \E i \in 1..Len(trace) : trace[i] = name

\* the failure went through log::error! / errors::error
Reported == \E i \in 1..Len(log) : log[i].level = "error"

\* some failure message reached the terminal, a panic message included
Printed == \E i \in 1..Len(log) : log[i].level \in {"error", "panic"}

Exited == pc = "exited"

\* the position at which main is blocked on external process p; the linker
\* has none: spawn() returns at once and the Child is never waited for
WaitingFor(p) ==
    CASE p = "cargo_build" -> {"cargo_build_wait"}
      [] p = "cargo_clean" -> {"cargo_clean_wait"}
      [] p = "linker" -> {}

\* every stage of the pipeline did what it is for
AllStagesSucceeded ==
    /\ \A p \in Procs : proc[p] = "exit0"
    /\ stdPath # "none"
    /\ SyntaxOk(source)
    /\ InTrace("llvm")
    /\ InTrace("verify") /\ ModuleOk
    /\ objWritten
    /\ exeWritten

\* C1: every external process call of the build command is blocking -- while
\* the process runs main is waiting for it, so main neither logs "Done!" nor
\* returns before it has ended -- and a non-zero exit status of the process
\* is fatal for the invocation: the compiler does not exit with status 0.
C1_ExternalCallsBlocking ==
    \A p \in Procs :
      /\ proc[p] = "running" => pc \in WaitingFor(p)
      /\ (proc[p] = "exit1" /\ Exited) => exitCode # 0

\* C2: a build exits with code 0 only if every stage (stdlib build, parse,
\* lowering, verification, object emission, linking) succeeded, and every
\* non-zero exit is preceded by a printed message.
C2_ExitCodeReflectsOutcome ==
    (cmd = "Cook" /\ Exited) =>
      /\ exitCode = 0 => AllStagesSucceeded
      /\ exitCode # 0 => Printed

\* the invocation is over: main has ended and so has the linker it started
Final == Exited /\ proc["linker"] # "running"

\* C3 (as claimed): in every final state of a build either all stages
\* succeeded and both the object file and the executable exist, or neither
\* an object file nor an executable was written.
C3_AllOrNothing ==
    (cmd = "Cook" /\ Final) =>
      \/ AllStagesSucceeded
      \/ ~objWritten /\ ~exeWritten

\* C3 (amended): no artifact is written before the steps before it have
\* gone through: the object file is written only after build_libstd
\* returned Ok, the source parsed, lowering ended without error and the
\* module verified; the executable is written only by a linker that was
\* started after the object file was written and that exited with status 0.
C3_ArtifactsAfterPriorStages ==
    /\ objWritten => /\ stdPath # "none"
                     /\ SyntaxOk(source)
                     /\ tree = parse(source)
                     /\ InTrace("llvm")
                     /\ InTrace("verify") /\ ModuleOk
    /\ exeWritten => objWritten /\ proc["linker"] = "exit0"

\* a link failure leaves the object file without an executable
C3_Witness ==
    /\ Final
    /\ objWritten
    /\ ~exeWritten
    /\ proc["linker"] = "exit1"

\* C4: when module verification fails after lowering, the process ends with
\* a non-zero status and neither the object file write nor the linker ever
\* takes place.
C4_NoEmissionAfterFailedVerify ==
    (InTrace("verify") /\ ~ModuleOk) =>
      /\ Exited /\ exitCode # 0
      /\ ~InTrace("emit") /\ ~objWritten
      /\ ~InTrace("link") /\ proc["linker"] = "none" /\ ~exeWritten

C4_Witness ==
    /\ InTrace("verify")
    /\ ~ModuleOk
    /\ Exited
    /\ exitCode = 1

\* the steps of a build, in the order of section 5
StageRank(s) ==
    CASE s = "mkdir_walter" -> 1
      [] s = "clone_else_pull" -> 2
      [] s = "cargo_build" -> 3
      [] s = "rename_libstd" -> 4
      [] s = "cargo_clean" -> 5
      [] s = "read_source" -> 6
      [] s = "create_build_dir" -> 7
      [] s = "parse" -> 8
      [] s = "create_module" -> 9
      [] s = "llvm" -> 10
      [] s = "build_return" -> 11
      [] s = "verify" -> 12
      [] s = "emit" -> 13
      [] s = "link" -> 14

\* C5: the stages run strictly in order, each at most once, and a stage
\* starts only if every earlier stage, the commands of the stdlib build
\* included, completed successfully.
C5_StagesInOrderAfterSuccess ==
    /\ \A i, j \in 1..Len(trace) :
         i < j => StageRank(trace[i]) < StageRank(trace[j])
    /\ InTrace("parse") => /\ proc["cargo_build"] = "exit0"
                           /\ proc["cargo_clean"] = "exit0"
    /\ InTrace("llvm") => SyntaxOk(source)
    /\ InTrace("emit") => ModuleOk
    /\ InTrace("link") => objWritten

\* C6: the optimisation level of the target machine that writes the object
\* file follows the build mode: none without --release, aggressive with it.
C6_OptLevelByBuildMode ==
    targetOpt # "unset" =>
      targetOpt = IF release THEN "Aggressive" ELSE "None"

\* C7: a build never ends abnormally (non-zero exit or panic) without the
\* failure having been handed to the diagnostics reporter.
C7_AbnormalExitViaDiagnostics ==
    (cmd = "Cook" /\ Exited /\ exitCode # 0) => Reported

\* C8: after lowering and the driver's final return, `main` has exactly one
\* entry block and every basic block has exactly one terminator.
C8_OneTerminatorPerBlock ==
    InTrace("build_return") =>
      /\ Cardinality({i \in 1..Len(blocks) : blocks[i].name = "entry"}) = 1
      /\ \A i \in 1..Len(blocks) : NumTerminators(blocks[i]) = 1

DriverDeclared(name) ==
    {i \in 1..Len(functions) : functions[i].by = "driver" /\ functions[i].name = name}

\* C9: when lowering begins, and from then on, the module declares the
\* print routine (void result, one byte-pointer parameter) and one entry
\* point `main` (no parameters, i32 result); the driver never declares any
\* other function.
C9_DeclarationsBeforeLowering ==
    /\ (pc = "llvm" \/ InTrace("llvm")) =>
         /\ \E i \in DriverDeclared("coitusinterruptus") :
              functions[i].ret = "void" /\ functions[i].params = <<"i8*">>
         /\ \E i \in DriverDeclared("main") :
              functions[i].ret = "i32" /\ functions[i].params = <<>>
    /\ Cardinality(DriverDeclared("main")) <= 1
    /\ \A i \in 1..Len(functions) :
         functions[i].by = "driver" =>
           functions[i].name \in {"coitusinterruptus", "main"}

C9_Witness ==
    /\ pc = "llvm"
    /\ Len(tree) > 0
    /\ tree[1].kind = "Expr"

\* C10: without a valid project configuration the build command logs an
\* error and exits with status 1 before any other effect: no stdlib
\* clone/pull or cargo run, no build directory, no source read, no parse, no
\* object or executable write.
C10_NoProjectNoEffects ==
    (cmd = "Cook" /\ ~projectValid) =>
      /\ trace = <<>>
      /\ \A p \in Procs : proc[p] = "none"
      /\ tree = <<>> /\ functions = <<>>
      /\ ~objWritten /\ ~exeWritten
      /\ pc \in {"main", "exited"}
      /\ Exited => exitCode = 1 /\ log = <<LogEntry("error", "No valid walter.yml found.")>>

C10_Witness ==
    /\ cmd = "Cook"
    /\ ~projectValid
    /\ Exited
    /\ exitCode = 1

====
